---- MODULE Spec2Model ----
(***************************************************************************)
(* Electrical component classifier: the predictor (backend/dep.py) and the *)
(* Flask routes that share one lazily created predictor (backend/app.py).  *)
(*                                                                         *)
(* Strings that the code converts (class-map keys, str(idx), int(idx)) are *)
(* sequences of one-character strings.  Messages are sequences of tokens.  *)
(* Probabilities are fixed-point numbers out of Scale.                     *)
(***************************************************************************)
EXTENDS Naturals, Integers, Sequences, FiniteSets, TLC

(* ------------------------------ bounds --------------------------------- *)
NumThreads == 2
MaxN == 6
MaxLogit == 1
MaxLoads == 2

Threads == 1..NumThreads

(* --------------------------- string helpers ---------------------------- *)
DigitChars == <<"0", "1", "2", "3", "4", "5", "6", "7", "8", "9">>

IsDigit(c) == \E d \in 1..10 : DigitChars[d] = c

DigitVal(c) == CHOOSE d \in 0..9 : DigitChars[d + 1] = c

RECURSIVE StrOf(_)
StrOf(i) ==
    IF i < 10 THEN <<DigitChars[i + 1]>>
    ELSE Append(StrOf(i \div 10), DigitChars[(i % 10) + 1])

RECURSIVE IntDigits(_)
IntDigits(s) ==
    IF s = <<>> THEN 0
    ELSE 10 * IntDigits(SubSeq(s, 1, Len(s) - 1)) + DigitVal(s[Len(s)])

Str(s) == <<s>>

Raise(type, msg) == [raised |-> TRUE, type |-> type, msg |-> msg]

Ok(v) == [raised |-> FALSE, val |-> v]

IntOf(s) ==
    IF s # <<>> /\ \A k \in 1..Len(s) : IsDigit(s[k])
    THEN Ok(IntDigits(s))
    ELSE Raise("ValueError", <<"invalid literal for int() with base 10: ">> \o s)

(* ------------------------------ dicts ---------------------------------- *)
(* A Python dict is a sequence of [key, val] pairs with distinct keys, in  *)
(* insertion order.                                                        *)
HasKey(d, k) == \E i \in 1..Len(d) : d[i].key = k

DictGet(d, k) == d[CHOOSE i \in 1..Len(d) : d[i].key = k].val

DictSet(d, k, v) ==
    IF HasKey(d, k)
    THEN [i \in 1..Len(d) |-> IF d[i].key = k THEN [key |-> k, val |-> v] ELSE d[i]]
    ELSE Append(d, [key |-> k, val |-> v])

DictValues(d) == [i \in 1..Len(d) |-> d[i].val]

(* --------------------------- the artifacts ----------------------------- *)
LabelNames ==
    <<"resistor", "capacitor", "inductor", "diode", "transistor", "led", "relay", "fuse">>

BaseMap(n) == [i \in 1..n |-> [key |-> StrOf(i - 1), val |-> LabelNames[i]]]

Reversed(d) == [i \in 1..Len(d) |-> d[Len(d) + 1 - i]]

WithKey(d, i, k) == [d EXCEPT ![i] = [key |-> k, val |-> d[i].val]]

WithLabel(d, i, l) == [d EXCEPT ![i] = [key |-> d[i].key, val |-> l]]

(* The class maps a class_map.json can hold after json.load: index order,  *)
(* reverse storage order, a gap ("0","2"), a repeated label, a key with a  *)
(* leading zero, two keys that int() maps to one index, a non-numeric key. *)
ClassMapsOf(n) ==
    {BaseMap(n), Reversed(BaseMap(n)), WithKey(BaseMap(n), n, StrOf(n))}
    \cup (IF n >= 2
          THEN {WithLabel(BaseMap(n), n, LabelNames[1]),
                WithKey(BaseMap(n), n, <<"0">> \o StrOf(n - 1)),
                WithKey(BaseMap(n), 1, <<"0">> \o StrOf(n - 1)),
                WithKey(BaseMap(n), n, <<"x">>)}
          ELSE {})

JsonMissing == [kind |-> "missing", dict |-> <<>>]

JsonCorrupt == [kind |-> "corrupt", dict |-> <<>>]

JsonDict(d) == [kind |-> "dict", dict |-> d]

(* ------------------ ElectricalComponentPredictor ----------------------- *)
NoneRef == [id |-> 0, class_map |-> <<>>, num_out |-> 0, training |-> FALSE]

LoadModelNoEval(weights, cmFile) ==
    IF ~weights.exists
    THEN Raise("FileNotFoundError", Str("Model file not found"))
    ELSE IF cmFile.kind = "missing"
    THEN Raise("FileNotFoundError", Str("No such file or directory"))
    ELSE IF cmFile.kind = "corrupt"
    THEN Raise("JSONDecodeError", Str("Expecting value"))
    ELSE LET num_classes == Len(cmFile.dict)
         IN IF weights.num_out # num_classes
            THEN Raise("RuntimeError", Str("size mismatch for fc.3.weight"))
            ELSE Ok([num_out |-> num_classes, training |-> TRUE])

LoadModel(weights, cmFile) ==
    IF ~weights.exists
    THEN Raise("FileNotFoundError", Str("Model file not found"))
    ELSE IF cmFile.kind = "missing"
    THEN Raise("FileNotFoundError", Str("No such file or directory"))
    ELSE IF cmFile.kind = "corrupt"
    THEN Raise("JSONDecodeError", Str("Expecting value"))
    ELSE LET num_classes == Len(cmFile.dict)
         IN IF weights.num_out # num_classes
            THEN Raise("RuntimeError", Str("size mismatch for fc.3.weight"))
            ELSE Ok([num_out |-> num_classes, training |-> FALSE])

LoadClassMap(cmFile) ==
    IF cmFile.kind = "missing"
    THEN Raise("FileNotFoundError", Str("Class map file not found"))
    ELSE IF cmFile.kind = "corrupt"
    THEN Raise("JSONDecodeError", Str("Expecting value"))
    ELSE Ok(cmFile.dict)

NewPredictor(id, weights, cmFile) ==
    LET m == LoadModel(weights, cmFile)
        c == LoadClassMap(cmFile)
    IN IF m.raised THEN m
       ELSE IF c.raised THEN c
       ELSE Ok([id |-> id, class_map |-> c.val, num_out |-> m.val.num_out,
                training |-> m.val.training])

create_predictor(id, weights, cmFile) == NewPredictor(id, weights, cmFile)

NoTensor == [none |-> TRUE, scores |-> <<>>]

PreprocessBody(img) ==
    IF img.kind = "missing" THEN Ok(NoTensor)
    ELSE IF img.kind \in {"empty", "notimage"}
    THEN Raise("UnidentifiedImageError", Str("cannot identify image file"))
    ELSE Ok([none |-> FALSE, scores |-> img.scores])

preprocess_image(img) ==
    LET r == PreprocessBody(img) IN IF r.raised THEN NoTensor ELSE r.val

(* The dropout masks a forward pass can draw: none in inference mode. Mask  *)
(* m > 0 changes the score of class m.                                      *)
DropoutMasks(self) == IF self.training THEN 0..self.num_out ELSE {0}

Forward(self, tensor, fault, mask) ==
    IF fault THEN Raise("RuntimeError", Str("out of memory"))
    ELSE Ok([i \in 1..Len(tensor.scores) |->
                IF i = mask THEN MaxLogit - tensor.scores[i] ELSE tensor.scores[i]])

Scale == 1000

RECURSIVE Exp2(_)
Exp2(x) == IF x = 0 THEN 1 ELSE 2 * Exp2(x - 1)

RECURSIVE SumExp(_, _)
SumExp(xs, k) == IF k = 0 THEN 0 ELSE SumExp(xs, k - 1) + Exp2(xs[k])

Softmax(xs) == [i \in 1..Len(xs) |-> (Scale * Exp2(xs[i])) \div SumExp(xs, Len(xs))]

MaxOf(ps) == CHOOSE m \in {ps[i] : i \in 1..Len(ps)} : \A j \in 1..Len(ps) : ps[j] <= m

TorchMax(ps) ==
    [values |-> MaxOf(ps),
     indices |-> (CHOOSE i \in 1..Len(ps) :
                     ps[i] = MaxOf(ps) /\ \A j \in 1..(i - 1) : ps[j] # MaxOf(ps)) - 1]

RECURSIVE ProbDistLoop(_, _, _, _)
ProbDistLoop(class_map, probabilities, prob_dist, k) ==
    IF k > Len(class_map) THEN Ok(prob_dist)
    ELSE LET idx == IntOf(class_map[k].key)
         IN IF idx.raised THEN idx
            ELSE IF idx.val >= Len(probabilities)
            THEN Raise("IndexError", Str("index out of bounds for dimension 0"))
            ELSE ProbDistLoop(class_map, probabilities,
                              DictSet(prob_dist, class_map[k].val, probabilities[idx.val + 1]),
                              k + 1)

InsertDesc(sorted, x) ==
    LET n == Cardinality({i \in 1..Len(sorted) : sorted[i].val >= x.val})
    IN SubSeq(sorted, 1, n) \o <<x>> \o SubSeq(sorted, n + 1, Len(sorted))

RECURSIVE SortedDesc(_, _)
SortedDesc(items, k) ==
    IF k = 0 THEN <<>> ELSE InsertDesc(SortedDesc(items, k - 1), items[k])

TopK == 5

Take(s, k) == SubSeq(s, 1, IF Len(s) < k THEN Len(s) ELSE k)

RECURSIVE DictOf(_, _)
DictOf(pairs, k) ==
    IF k = 0 THEN <<>> ELSE DictSet(DictOf(pairs, k - 1), pairs[k].key, pairs[k].val)

FailureResult(msg) ==
    [success |-> FALSE, error |-> msg, class_name |-> "None", confidence |-> 0,
     probabilities |-> <<>>]

PredictBody(self, img, fault, mask) ==
    LET image_tensor == preprocess_image(img)
    IN IF image_tensor.none
       THEN Ok(FailureResult(Str("Failed to preprocess image")))
       ELSE
       LET outputs == Forward(self, image_tensor, fault, mask)
       IN IF outputs.raised THEN outputs
          ELSE
          LET probabilities == Softmax(outputs.val)
              mx == TorchMax(probabilities)
              key == StrOf(mx.indices)
          IN IF ~HasKey(self.class_map, key)
             THEN Raise("KeyError", <<"'">> \o key \o <<"'">>)
             ELSE
             LET prob_dist == ProbDistLoop(self.class_map, probabilities, <<>>, 1)
             IN IF prob_dist.raised THEN prob_dist
                ELSE
                LET sorted_probs == SortedDesc(prob_dist.val, Len(prob_dist.val))
                IN Ok([success |-> TRUE,
                       class_name |-> DictGet(self.class_map, key),
                       confidence |-> mx.values,
                       probabilities |-> DictOf(Take(sorted_probs, TopK),
                                                Len(Take(sorted_probs, TopK))),
                       all_probabilities |-> prob_dist.val])

PredictNoExcept(self, img, fault, mask) == PredictBody(self, img, fault, mask)

Predict(self, img, fault, mask) ==
    LET r == PredictBody(self, img, fault, mask)
    IN IF r.raised THEN Ok(FailureResult(r.msg)) ELSE r

get_class_info(self) ==
    [num_classes |-> Len(self.class_map),
     classes |-> DictValues(self.class_map),
     class_mapping |-> self.class_map]

(* ------------------------------ app.py --------------------------------- *)
VARIABLES weights, classMapFile, predictor, uploads, pc, req, pred, exc, response,
          loadCount, failCount, created, retry

vars == <<weights, classMapFile, predictor, uploads, pc, req, pred, exc, response,
          loadCount, failCount, created, retry>>

ALLOWED_EXTENSIONS == {"png", "jpg", "jpeg", "gif", "bmp", "tiff", "webp"}

Lower(s) == IF s = "PNG" THEN "png" ELSE IF s = "JPG" THEN "jpg" ELSE s

(* A file name is the sequence of its parts between dots. *)
allowed_file(filename) ==
    Len(filename) >= 2 /\ Lower(filename[Len(filename)]) \in ALLOWED_EXTENSIONS

Routes == {"index", "predict", "health", "classes"}

NoImg == [kind |-> "none", scores |-> <<>>]

NoForm == [tooLarge |-> FALSE, hasFile |-> FALSE, filename |-> <<>>, img |-> NoImg,
           fault |-> FALSE]

NoReq == [route |-> "none", form |-> NoForm]

NoExc == [raised |-> FALSE, type |-> "none", msg |-> <<>>]

NoResponse == [by |-> "none", code |-> 0, body |-> [none |-> TRUE]]

FileNames == {<<>>, <<"photo">>, <<"photo", "PNG">>, <<"setup", "exe">>}

BadForms ==
    {[NoForm EXCEPT !.tooLarge = TRUE], NoForm}
    \cup {[NoForm EXCEPT !.hasFile = TRUE, !.filename = f] : f \in FileNames \ {<<"photo", "PNG">>}}

Images(scores) ==
    {[kind |-> k, scores |-> <<>>] : k \in {"empty", "notimage"}}
    \cup {[kind |-> "ok", scores |-> x] : x \in scores}

GoodForms(scores) ==
    {[tooLarge |-> FALSE, hasFile |-> TRUE, filename |-> <<"photo", "PNG">>, img |-> i,
      fault |-> f] : i \in Images(scores), f \in BOOLEAN}

AllScores(n) == [1..n -> 0..MaxLogit]

Response(by, code, body) == [by |-> by, code |-> code, body |-> body]

(* The requests a route accepts: /predict carries a multipart form. *)
Request(t, forms) ==
    /\ pc[t] = "idle"
    /\ \E route \in Routes :
         IF route # "predict"
         THEN /\ req' = [req EXCEPT ![t] = [route |-> route, form |-> NoForm]]
              /\ pc' = [pc EXCEPT ![t] = "getpred"]
              /\ UNCHANGED <<uploads, response>>
         ELSE \E form \in forms :
              /\ req' = [req EXCEPT ![t] = [route |-> route, form |-> form]]
              /\ IF form.tooLarge
                 THEN /\ response' = [response EXCEPT ![t] =
                             Response("predict", 413,
                                 [success |-> FALSE,
                                  error |-> Str("File too large. Maximum size is 16MB.")])]
                      /\ pc' = [pc EXCEPT ![t] = "responded"]
                      /\ UNCHANGED uploads
                 ELSE IF ~form.hasFile
                 THEN /\ response' = [response EXCEPT ![t] =
                             Response("predict", 400,
                                 [success |-> FALSE, error |-> Str("No file uploaded")])]
                      /\ pc' = [pc EXCEPT ![t] = "responded"]
                      /\ UNCHANGED uploads
                 ELSE IF form.filename = <<>>
                 THEN /\ response' = [response EXCEPT ![t] =
                             Response("predict", 400,
                                 [success |-> FALSE, error |-> Str("No file selected")])]
                      /\ pc' = [pc EXCEPT ![t] = "responded"]
                      /\ UNCHANGED uploads
                 ELSE IF ~allowed_file(form.filename)
                 THEN /\ response' = [response EXCEPT ![t] =
                             Response("predict", 400,
                                 [success |-> FALSE, error |-> Str("Invalid file type")])]
                      /\ pc' = [pc EXCEPT ![t] = "responded"]
                      /\ UNCHANGED uploads
                 ELSE (* file.save, then cleanup_old_files: any other file may be old *)
                      /\ \E old \in SUBSET (uploads \ {t}) :
                            uploads' = (uploads \cup {t}) \ old
                      /\ pc' = [pc EXCEPT ![t] = "getpred"]
                      /\ UNCHANGED response
    /\ UNCHANGED <<weights, classMapFile, predictor, pred, exc, loadCount, failCount,
                   created, retry>>

NeedsLoadUnlessFailed(ref) == ref.id = 0 /\ failCount = 0

(* get_predictor, line 41: the test of the module-level reference. *)
NeedsLoad(ref) == ref.id = 0

GetPredictorCheck(t) ==
    /\ pc[t] = "getpred"
    /\ IF NeedsLoad(predictor)
       THEN /\ loadCount < MaxLoads
            /\ loadCount' = loadCount + 1
            /\ retry' = [retry EXCEPT ![t] = failCount > 0]
            /\ pc' = [pc EXCEPT ![t] = "loading"]
       ELSE /\ pc' = [pc EXCEPT ![t] = "ret"]
            /\ UNCHANGED <<loadCount, retry>>
    /\ UNCHANGED <<weights, classMapFile, predictor, uploads, req, pred, exc, response,
                   failCount, created>>

(* get_predictor, line 43: create_predictor() returns and the result is stored. *)
LoadOk(t) ==
    /\ pc[t] = "loading"
    /\ LET r == create_predictor(created + 1, weights, classMapFile)
       IN /\ ~r.raised
          /\ predictor' = r.val
    /\ created' = created + 1
    /\ retry' = [retry EXCEPT ![t] = FALSE]
    /\ pc' = [pc EXCEPT ![t] = "ret"]
    /\ UNCHANGED <<weights, classMapFile, uploads, req, pred, exc, response, loadCount,
                   failCount>>

(* get_predictor, lines 45-47: the load raised; log and re-raise. *)
LoadFail(t) ==
    /\ pc[t] = "loading"
    /\ LET r == create_predictor(created + 1, weights, classMapFile)
       IN /\ r.raised
          /\ exc' = [exc EXCEPT ![t] = r]
    /\ failCount' = failCount + 1
    /\ retry' = [retry EXCEPT ![t] = FALSE]
    /\ pc' = [pc EXCEPT ![t] = "raised"]
    /\ UNCHANGED <<weights, classMapFile, predictor, uploads, req, pred, response, loadCount,
                   created>>

(* What predict(file_path) finds at the path of this request's upload. *)
FileAt(t) == IF t \in uploads THEN req[t].form.img ELSE [kind |-> "missing", scores |-> <<>>]

(* get_predictor, line 48: return predictor (a second read of the reference), *)
(* and the rest of the route handler with the predictor it was given.         *)
Serve(t) ==
    /\ pc[t] = "ret"
    /\ pred' = [pred EXCEPT ![t] = predictor]
    /\ \E mask \in DropoutMasks(predictor) :
       LET class_info == get_class_info(predictor)
           result == Predict(predictor, FileAt(t), req[t].form.fault, mask)
       IN CASE req[t].route = "index" ->
                 /\ response' = [response EXCEPT ![t] =
                        Response("index", 200,
                            [template |-> "index.html",
                             num_classes |-> class_info.num_classes,
                             classes |-> class_info.classes])]
                 /\ pc' = [pc EXCEPT ![t] = "responded"]
                 /\ UNCHANGED <<uploads, exc, req>>
            [] req[t].route = "health" ->
                 /\ response' = [response EXCEPT ![t] =
                        Response("health", 200,
                            [status |-> "healthy", model_loaded |-> TRUE,
                             num_classes |-> class_info.num_classes])]
                 /\ pc' = [pc EXCEPT ![t] = "responded"]
                 /\ UNCHANGED <<uploads, exc, req>>
            [] req[t].route = "classes" ->
                 /\ response' = [response EXCEPT ![t] =
                        Response("classes", 200,
                            [success |-> TRUE,
                             num_classes |-> class_info.num_classes,
                             classes |-> class_info.classes,
                             class_mapping |-> class_info.class_mapping])]
                 /\ pc' = [pc EXCEPT ![t] = "responded"]
                 /\ UNCHANGED <<uploads, exc, req>>
            [] req[t].route = "predict" ->
                 /\ req' = [req EXCEPT ![t].form.img = FileAt(t)]
                 /\ IF result.raised
                    THEN /\ exc' = [exc EXCEPT ![t] = result]
                         /\ pc' = [pc EXCEPT ![t] = "raised"]
                         /\ UNCHANGED <<uploads, response>>
                    ELSE /\ response' = [response EXCEPT ![t] =
                               Response("predict", 200,
                                   result.val @@ ("filename" :> t))]
                         /\ uploads' = uploads \ {t}
                         /\ pc' = [pc EXCEPT ![t] = "responded"]
                         /\ UNCHANGED exc
    /\ UNCHANGED <<weights, classMapFile, predictor, loadCount, failCount, created, retry>>

RouteCatchesButHealth(route) == route \in Routes \ {"health"}

(* The except Exception clause of each route handler. *)
RouteCatches(route) == route \in Routes

HandlerExcept(t) ==
    /\ pc[t] = "raised"
    /\ response' = [response EXCEPT ![t] =
          IF ~RouteCatches(req[t].route)
          THEN Response("internal_error", 500,
                   [success |-> FALSE, error |-> Str("Internal server error")])
          ELSE CASE req[t].route = "index" ->
                      Response("index", 200,
                          [template |-> "index.html", num_classes |-> 0, classes |-> <<>>,
                           error |-> Str("Service temporarily unavailable")])
                 [] req[t].route = "health" ->
                      Response("health", 500,
                          [status |-> "unhealthy", error |-> exc[t].msg])
                 [] req[t].route = "classes" ->
                      Response("classes", 500,
                          [success |-> FALSE, error |-> exc[t].msg])
                 [] req[t].route = "predict" ->
                      Response("predict", 500,
                          [success |-> FALSE,
                           error |-> Str("Internal server error. Please try again.")])]
    /\ pc' = [pc EXCEPT ![t] = "responded"]
    /\ UNCHANGED <<weights, classMapFile, predictor, uploads, req, pred, exc, loadCount,
                   failCount, created, retry>>

(* The response is sent; the handler's locals go away. *)
Respond(t) ==
    /\ pc[t] = "responded"
    /\ pc' = [pc EXCEPT ![t] = "idle"]
    /\ req' = [req EXCEPT ![t] = NoReq]
    /\ pred' = [pred EXCEPT ![t] = NoneRef]
    /\ exc' = [exc EXCEPT ![t] = NoExc]
    /\ response' = [response EXCEPT ![t] = NoResponse]
    /\ UNCHANGED <<weights, classMapFile, predictor, uploads, loadCount, failCount, created,
                   retry>>

NoWeights == [exists |-> FALSE, num_out |-> 0]

InitLocals ==
    /\ predictor = NoneRef
    /\ uploads = {}
    /\ pc = [t \in Threads |-> "idle"]
    /\ req = [t \in Threads |-> NoReq]
    /\ pred = [t \in Threads |-> NoneRef]
    /\ exc = [t \in Threads |-> NoExc]
    /\ response = [t \in Threads |-> NoResponse]
    /\ loadCount = 0
    /\ failCount = 0
    /\ created = 0
    /\ retry = [t \in Threads |-> FALSE]

(* The service: NumThreads request threads, a few artifacts and images. *)
FacadeN == 2

Init ==
    /\ \E w \in {<<NoWeights, JsonDict(BaseMap(FacadeN))>>,
                  <<[exists |-> TRUE, num_out |-> FacadeN], JsonMissing>>,
                  <<[exists |-> TRUE, num_out |-> FacadeN], JsonDict(BaseMap(FacadeN))>>,
                  <<[exists |-> TRUE, num_out |-> FacadeN],
                    JsonDict(WithKey(BaseMap(FacadeN), FacadeN, StrOf(FacadeN)))>>} :
          weights = w[1] /\ classMapFile = w[2]
    /\ InitLocals

FewForms ==
    {NoForm}
    \cup {[tooLarge |-> FALSE, hasFile |-> TRUE, filename |-> <<"photo", "PNG">>, img |-> i,
           fault |-> f] :
             i \in {[kind |-> "notimage", scores |-> <<>>],
                    [kind |-> "ok", scores |-> [k \in 1..weights.num_out |-> 0]]},
             f \in BOOLEAN}

Next ==
    \E t \in Threads :
        \/ Request(t, FewForms)
        \/ GetPredictorCheck(t)
        \/ LoadOk(t)
        \/ LoadFail(t)
        \/ Serve(t)
        \/ HandlerExcept(t)
        \/ Respond(t)

Spec == Init /\ [][Next]_vars

(* One request at a time, every class map up to MaxN classes, every score vector. *)
InitRank ==
    /\ weights \in {NoWeights} \cup {[exists |-> TRUE, num_out |-> n] : n \in 1..MaxN}
    /\ classMapFile \in {JsonMissing, JsonCorrupt}
                        \cup {JsonDict(m) : m \in UNION {ClassMapsOf(n) : n \in 1..MaxN}}
    /\ InitLocals

FormsRank == BadForms \cup GoodForms(AllScores(weights.num_out))

NextRank ==
    \/ Request(1, FormsRank)
    \/ GetPredictorCheck(1)
    \/ LoadOk(1)
    \/ LoadFail(1)
    \/ Serve(1)
    \/ HandlerExcept(1)
    \/ Respond(1)

SpecRank == InitRank /\ [][NextRank]_vars

(* ------------------------------ claims --------------------------------- *)
Loading == {t \in Threads : pc[t] = "loading"}

Loadable == ~create_predictor(1, weights, classMapFile).raised

(* C1: concurrent first calls load the model once: never two loads in      *)
(* progress at the same time and never a second predictor constructed.     *)
C1_LoadedOnce == Cardinality(Loading) <= 1 /\ created <= 1

C3_NeverReplaced == [][predictor.id # 0 => predictor' = predictor]_vars

(* C4: on a Ready predictor, predict never raises: a bad file, a failing   *)
(* forward pass or a failing label lookup gives success=false with a       *)
(* non-empty error, every other input gives success=true.                  *)
FirstMax(xs) ==
    CHOOSE i \in 0..(Len(xs) - 1) :
        /\ \A j \in 1..Len(xs) : xs[j] <= xs[i + 1]
        /\ \A j \in 1..i : xs[j] < xs[i + 1]

LookupFails(class_map, scores) ==
    \/ ~HasKey(class_map, StrOf(FirstMax(scores)))
    \/ \E k \in 1..Len(class_map) :
          \/ IntOf(class_map[k].key).raised
          \/ IntOf(class_map[k].key).val >= Len(scores)

ExpectedFailure(self, form) ==
    \/ form.img.kind # "ok"
    \/ form.fault
    \/ LookupFails(self.class_map, form.img.scores)

CalledPredict(t) ==
    pc[t] \in {"raised", "responded"} /\ req[t].route = "predict" /\ pred[t].id # 0

NonEmptyText(msg) == msg # <<>> /\ \E k \in 1..Len(msg) : msg[k] # ""

C4_PredictNeverRaises ==
    \A t \in Threads :
        CalledPredict(t) =>
            /\ pc[t] = "responded"
            /\ response[t].by = "predict"
            /\ response[t].code = 200
            /\ response[t].body.success = ~ExpectedFailure(pred[t], req[t].form)
            /\ ~response[t].body.success => NonEmptyText(response[t].body.error)

C4_Witness ==
    \E t \in Threads :
        /\ CalledPredict(t)
        /\ req[t].form.img.kind = "notimage"
        /\ ~response[t].body.success

(* C5: a class map whose keys are not exactly "0".."N-1" never yields a     *)
(* constructed predictor.                                                  *)
ContiguousKeys(class_map) ==
    {class_map[k].key : k \in 1..Len(class_map)} = {StrOf(i) : i \in 0..(Len(class_map) - 1)}

C5_NonContiguousNeverReady == predictor.id # 0 => ContiguousKeys(predictor.class_map)

Responded(t, route) == pc[t] = "responded" /\ req[t].route = route

SuccessfulPrediction(t) ==
    Responded(t, "predict") /\ response[t].code = 200 /\ response[t].body.success

Probs(t) == Softmax(req[t].form.img.scores)

LabelOf(class_map, i) == DictGet(class_map, StrOf(i))

UniqueLabels(class_map) ==
    \A j, k \in 1..Len(class_map) : class_map[j].val = class_map[k].val => j = k

Rank(ps, i) ==
    1 + Cardinality({j \in 0..(Len(ps) - 1) :
                        ps[j + 1] > ps[i + 1] \/ (ps[j + 1] = ps[i + 1] /\ j < i)})

ByProbThenIndex(class_map, ps) ==
    [r \in 1..(IF Len(class_map) < 5 THEN Len(class_map) ELSE 5) |->
        LET i == CHOOSE i \in 0..(Len(ps) - 1) : Rank(ps, i) = r
        IN [key |-> LabelOf(class_map, i), val |-> ps[i + 1]]]

(* C6: for a class map with keys "0".."N-1" and distinct labels, in any    *)
(* storage order, the top-K view of a successful prediction has min(5, N)  *)
(* entries: the classes by probability descending, equal probabilities by  *)
(* ascending class index.                                                  *)
C6_TopKByProbThenIndex ==
    \A t \in Threads :
        (/\ SuccessfulPrediction(t)
         /\ ContiguousKeys(pred[t].class_map)
         /\ UniqueLabels(pred[t].class_map))
        => response[t].body.probabilities = ByProbThenIndex(pred[t].class_map, Probs(t))

(* C7: class_name is the label of the lowest index with the maximum        *)
(* probability and confidence is all_probabilities[class_name].            *)
C7_ArgmaxAndConfidence ==
    \A t \in Threads :
        SuccessfulPrediction(t) =>
            LET r == response[t].body
            IN /\ r.class_name = LabelOf(pred[t].class_map, FirstMax(Probs(t)))
               /\ r.confidence = Probs(t)[FirstMax(Probs(t)) + 1]
               /\ r.confidence = DictGet(r.all_probabilities, r.class_name)

(* C8: all_probabilities has exactly N entries, one per class index 0..N-1 *)
(* holding that index's probability.                                       *)
C8_AllProbabilitiesCoverEveryClass ==
    \A t \in Threads :
        SuccessfulPrediction(t) =>
            LET r == response[t].body
                class_map == pred[t].class_map
            IN /\ Len(r.all_probabilities) = Len(class_map)
               /\ \A i \in 0..(Len(class_map) - 1) :
                     /\ HasKey(class_map, StrOf(i))
                     /\ \E k \in 1..Len(r.all_probabilities) :
                           r.all_probabilities[k] =
                               [key |-> LabelOf(class_map, i), val |-> Probs(t)[i + 1]]

(* C9: for a class map with keys "0".."N-1" in any storage order, the      *)
(* class information has num_classes = N and labels[i] the label of i.     *)
C9_LabelsInIndexOrder ==
    \A t \in Threads :
        (/\ Responded(t, "classes")
         /\ response[t].code = 200
         /\ ContiguousKeys(pred[t].class_map))
        => /\ response[t].body.num_classes = Len(pred[t].class_map)
           /\ \A i \in 0..(Len(pred[t].class_map) - 1) :
                 response[t].body.classes[i + 1] = LabelOf(pred[t].class_map, i)

(* C10: while the predictor cannot be created every route answers with its *)
(* own structured error response; no exception leaves a route handler.     *)
C10_UnhealthyNotCrashed ==
    \A t \in Threads :
        (pc[t] = "responded" /\ ~Loadable) =>
            /\ response[t].by = req[t].route
            /\ CASE req[t].route = "health" ->
                      /\ response[t].code = 500
                      /\ response[t].body.status = "unhealthy"
                      /\ NonEmptyText(response[t].body.error)
                 [] req[t].route = "classes" ->
                      /\ response[t].code = 500
                      /\ ~response[t].body.success
                      /\ NonEmptyText(response[t].body.error)
                 [] req[t].route = "predict" ->
                      /\ response[t].code \in {400, 413, 500}
                      /\ ~response[t].body.success
                      /\ NonEmptyText(response[t].body.error)
                 [] req[t].route = "index" ->
                      /\ response[t].body.num_classes = 0
                      /\ NonEmptyText(response[t].body.error)

C10_Witness ==
    \E t \in Threads :
        /\ Responded(t, "health")
        /\ response[t].body.status = "unhealthy"
        /\ failCount >= 2

(* C11: two successful predictions of the same image carry the same         *)
(* all_probabilities, whatever calls ran before or between them, and a      *)
(* predict or class-information call leaves the loaded predictor as it was. *)
C11_Deterministic ==
    /\ \A t, u \in Threads :
          (/\ SuccessfulPrediction(t)
           /\ SuccessfulPrediction(u)
           /\ req[t].form.img = req[u].form.img)
          => response[t].body.all_probabilities = response[u].body.all_probabilities
    /\ \A t \in Threads :
          (pc[t] = "responded" /\ pred[t].id = predictor.id) => pred[t] = predictor

C11_Witness ==
    \E t, u \in Threads :
        /\ t # u
        /\ SuccessfulPrediction(t)
        /\ SuccessfulPrediction(u)
        /\ req[t].form.img = req[u].form.img
        /\ \E v \in Threads : pred[v].id # 0 /\ pred[v].id = predictor.id

(* C12: a finished /predict request leaves no upload behind: once the      *)
(* response is ready the file this request saved is gone.                  *)
C12_UploadRemoved == \A t \in Threads : pc[t] \in {"responded", "idle"} => t \notin uploads

====
